---- MODULE Spec2Model ----
(***************************************************************************)
(* A model of the WebP -> PNG converter (src/main.go): the single-file     *)
(* converter convertWebPToPNG, the directory batch processor               *)
(* convertDirectory and the entry point main, over a small file system.    *)
(*                                                                         *)
(* File names are sequences of one-character strings, so that the string   *)
(* functions the code applies to them (ToLower, HasSuffix, Ext,            *)
(* TrimSuffix) are computed, not assumed.  A path is a record [dir, name]. *)
(* The codecs and the operating system are the environment: each call an   *)
(* operation makes to them takes its outcome from an input record.         *)
(***************************************************************************)
EXTENDS Integers, Sequences, FiniteSets, TLC

\* ---------------------------------------------------------------- bounds
\* Most entries a listed directory holds.
MaxEntries == 2
\* Most times the program is run on the same arguments (single-file mode).
MaxRuns == 2

\* ------------------------------------------------------- strings (package strings, filepath)
Upper == <<"A", "B", "C", "D", "E", "O", "P", "W">>
Lower == <<"a", "b", "c", "d", "e", "o", "p", "w">>

RECURSIVE IndexOf(_, _, _)
\* The least index of ch in cs from i on, 0 when there is none.
IndexOf(cs, ch, i) ==
    IF i > Len(cs) THEN 0
    ELSE IF cs[i] = ch THEN i ELSE IndexOf(cs, ch, i + 1)

\* unicode.ToLower of one character.
LowerChar(ch) ==
    LET i == IndexOf(Upper, ch, 1) IN IF i = 0 THEN ch ELSE Lower[i]

\* strings.ToLower
ToLower(s) == [i \in 1..Len(s) |-> LowerChar(s[i])]

\* strings.HasSuffix
HasSuffix(s, suffix) ==
    /\ Len(s) >= Len(suffix)
    /\ SubSeq(s, Len(s) - Len(suffix) + 1, Len(s)) = suffix

\* strings.TrimSuffix
TrimSuffix(s, suffix) ==
    IF HasSuffix(s, suffix) THEN SubSeq(s, 1, Len(s) - Len(suffix)) ELSE s

RECURSIVE LastDot(_, _)
\* The index of the last "." of s at or before i, 0 when there is none.
LastDot(s, i) ==
    IF i = 0 THEN 0
    ELSE IF s[i] = "." THEN i ELSE LastDot(s, i - 1)

\* filepath.Ext of a name that holds no path separator.
Ext(s) ==
    LET d == LastDot(s, Len(s)) IN IF d = 0 THEN <<>> ELSE SubSeq(s, d, Len(s))

DotWebp == <<".", "w", "e", "b", "p">>
DotPng == <<".", "p", "n", "g">>

\* strings.TrimSuffix(name, filepath.Ext(name)) + ".png"
PngName(name) == TrimSuffix(name, Ext(name)) \o DotPng

\* ------------------------------------------------------------ the file system
\* The entries a directory may hold, in the order os.ReadDir returns them
\* (sorted by file name, bytewise: "." < "A".."Z" < "a".."z").
Pool ==
    << [name |-> <<"a", ".", "W", "E", "B", "P">>, isDir |-> FALSE],
       [name |-> <<"a", ".", "w", "e", "b", "p">>, isDir |-> FALSE],
       [name |-> <<"b", ".", "w", "e", "b", "p">>, isDir |-> FALSE],
       [name |-> <<"c", ".", "p", "n", "g">>, isDir |-> FALSE],
       [name |-> <<"d", ".", "w", "e", "b", "p">>, isDir |-> TRUE],
       [name |-> <<"w", "e", "b", "p">>, isDir |-> FALSE] >>

PoolNames == {Pool[i].name : i \in 1..Len(Pool)}
OName == <<"o", ".", "p", "n", "g">>
AllNames == PoolNames \cup {PngName(n) : n \in PoolNames} \cup {OName}

Dirs == {"in", "out"}
Paths == [dir : Dirs, name : AllNames]
\* The empty string given as a path (no output argument).
NoPath == [dir |-> "", name |-> <<>>]

\* filepath.Join(dir, name)
Join(dir, name) == [dir |-> dir, name |-> name]

\* What a path holds.  img names the picture the bytes carry (0: none).
Absent == [kind |-> "absent", img |-> 0]
EmptyFile == [kind |-> "empty", img |-> 0]
Directory == [kind |-> "dir", img |-> 0]
SourceKinds == {"webp", "jpeg", "junk"}

\* os.Stat(path).Size() = 0
IsEmpty(c) == c.kind = "empty"

\* ------------------------------------------------------------------ errors
NoErr == [kind |-> "nil", cause |-> <<>>]
\* fmt.Errorf("...: %w", err): the kind of failure and the messages it wraps.
Errorf(kind, cause) == [kind |-> kind, cause |-> cause]

WebpMsg == "webp: invalid format"
JpegMsg == "invalid JPEG format: missing SOI marker"
OsMsg == "os: operation failed"
PngMsg == "png: write failed"

\* ------------------------------------------------------------------ codecs
\* webp.Decode(bytes.NewReader(inputData))
webpDecode(data) ==
    IF data.kind = "webp" THEN [ok |-> TRUE, img |-> data.img, msg |-> ""]
    ELSE [ok |-> FALSE, img |-> 0, msg |-> WebpMsg]

\* jpeg.Decode(bytes.NewReader(inputData))
jpegDecode(data) ==
    IF data.kind = "jpeg" THEN [ok |-> TRUE, img |-> data.img, msg |-> ""]
    ELSE [ok |-> FALSE, img |-> 0, msg |-> JpegMsg]

\* The bytes a write leaves in a file opened on `old`: a file that was
\* truncated (or is new) holds exactly the bytes written.
WriteTo(old, bytes) ==
    IF old \in {EmptyFile, Absent} THEN bytes
    ELSE [kind |-> "appended", img |-> bytes.img]

\* The outcomes of the calls one conversion makes to the operating system and
\* the PNG encoder.  encode: "ok", "fail" (an error after a partial write), or
\* "empty" (success reported, nothing written).
\* An outcome is listed once: a call that is never reached (after an earlier
\* failure, or os.Remove without an encode error) has the default outcome.
Env ==
    {e \in [read : BOOLEAN, create : BOOLEAN, encode : {"ok", "fail", "empty"},
            sync : BOOLEAN, remove : BOOLEAN] :
        /\ ~e.read => e.create
        /\ ~e.create => e.encode = "ok"
        /\ e.encode = "fail" => e.sync
        /\ e.encode # "fail" => e.remove
        /\ (~e.read \/ ~e.create) => e.sync}

\* The outcomes a call consulted, given the operations it performed.
Consulted(env, ops) ==
    LET did(op) == \E i \in 1..Len(ops) : ops[i] = op
    IN  [read |-> env.read,
         create |-> IF did("Create") THEN env.create ELSE TRUE,
         encode |-> IF did("png.Encode") THEN env.encode ELSE "ok",
         sync |-> IF did("Sync") THEN env.sync ELSE TRUE,
         remove |-> IF did("Remove") THEN env.remove ELSE TRUE]

\* ------------------------------------------------- convertWebPToPNG
Ret(f, err, ops) == [fs |-> f, err |-> err, ops |-> ops]

\* os.Create: creates the file, or truncates the one that exists.
Create_Append(f, path) ==
    IF f[path] = Absent THEN [f EXCEPT ![path] = EmptyFile] ELSE f

Create(f, path) == [f EXCEPT ![path] = EmptyFile]

\* os.Remove, whose error the callers ignore.
Remove(f, path, ok) == IF ok THEN [f EXCEPT ![path] = Absent] ELSE f

\* Both decoders failed: the error wraps err, which the JPEG attempt overwrote.
DecodeFailure_Cleanup(f, outputPath, w, j, ops) ==
    Ret([f EXCEPT ![outputPath] = Absent], Errorf("DecodeFailed", <<j.msg>>), ops)

DecodeFailure(f, outputPath, w, j, ops) ==
    Ret(f, Errorf("DecodeFailed", <<j.msg>>), ops)

\* png.Encode failed: close, remove the incomplete file, report.
EncodeFailure_Keep(f, outputPath, img, env, ops) ==
    Ret([f EXCEPT ![outputPath] = WriteTo(@, [kind |-> "partial", img |-> img])],
        Errorf("EncodeFailed", <<PngMsg>>),
        ops \o <<"Close", "Close">>)

EncodeFailure(f, outputPath, img, env, ops) ==
    Ret(Remove([f EXCEPT ![outputPath] = WriteTo(@, [kind |-> "partial", img |-> img])],
               outputPath, env.remove),
        Errorf("EncodeFailed", <<PngMsg>>),
        ops \o <<"Close", "Remove", "Close">>)

\* From os.Create on: the image is decoded.
WriteOutput(f, outputPath, img, env, ops) ==
    IF ~env.create
    THEN Ret(f, Errorf("CreateFailed", <<OsMsg>>), ops \o <<"Create">>)
    ELSE LET f1 == Create(f, outputPath)
             ops1 == ops \o <<"Create", "png.Encode">>
         IN  IF env.encode = "fail"
             THEN EncodeFailure(f1, outputPath, img, env, ops1)
             ELSE LET f2 == IF env.encode = "empty" THEN f1
                            ELSE [f1 EXCEPT ![outputPath] =
                                     WriteTo(@, [kind |-> "png", img |-> img])]
                  IN  IF ~env.sync
                      THEN Ret(f2, Errorf("SyncFailed", <<OsMsg>>),
                               ops1 \o <<"Sync", "Close">>)
                      ELSE Ret(f2, NoErr, ops1 \o <<"Sync", "Close">>)

convertWebPToPNG(f, inputPath, outputPath, env) ==
    LET inputData == f[inputPath] IN
    IF ~env.read \/ inputData \in {Absent, Directory}
    THEN Ret(f, Errorf("ReadFailed", <<OsMsg>>), <<"ReadFile">>)
    ELSE LET w == webpDecode(inputData)
             j == jpegDecode(inputData)
         IN  IF w.ok
             THEN WriteOutput(f, outputPath, w.img, env, <<"ReadFile", "webp.Decode">>)
             ELSE IF j.ok
                  THEN WriteOutput(f, outputPath, j.img, env,
                                   <<"ReadFile", "webp.Decode", "jpeg.Decode">>)
                  ELSE DecodeFailure(f, outputPath, w, j,
                                     <<"ReadFile", "webp.Decode", "jpeg.Decode">>)

\* ------------------------------------------------------------------- state
VARIABLES
    pc,            \* where the process is: "start", "dir", "loop", "file", "exit"
    input,         \* args[0] as a path (name <<>>: the directory itself)
    output,        \* args[1] as a path, NoPath when it is not given
    entries,       \* what os.ReadDir(inputDir) returns
    fs,            \* the file system: what each path holds
    webpFiles,     \* convertDirectory: the eligible names
    idx,           \* convertDirectory: the position of the range loop
    errors,        \* convertDirectory: the conversionError slice
    successCount,  \* convertDirectory: the success counter
    reportFile,    \* conversion_errors.txt of this run
    summary,       \* the closing line "Успешно: %d из %d"
    batchErr,      \* what convertDirectory returned
    exitCode,      \* the status the process ended with (-1: still running)
    listed,        \* how os.ReadDir ended: "no", "ok", "failed"
    mkdir,         \* how os.MkdirAll ended: "no", "ok", "failed"
    log,           \* history: one record per call of the loop body
    runs,          \* how many times the program was started
    runLog         \* history: one record per single-file run

vars ==
    <<pc, input, output, entries, fs, webpFiles, idx, errors, successCount,
      reportFile, summary, batchErr, exitCode, listed, mkdir, log, runs, runLog>>

batchVars ==
    <<webpFiles, idx, errors, successCount, reportFile, summary, batchErr,
      listed, mkdir, log>>

\* status: "none" (not attempted), "written", "createFailed".
NoReport == [status |-> "none", total |-> 0, entries |-> <<>>]
NoSummary == [shown |-> FALSE, success |-> 0, total |-> 0]

RECURSIVE Listing(_, _)
\* The entries of Pool whose index is in S, in Pool's (sorted) order.
Listing(S, i) ==
    IF i > Len(Pool) THEN <<>>
    ELSE (IF i \in S THEN <<Pool[i]>> ELSE <<>>) \o Listing(S, i + 1)

\* The test of the filter loop: not a directory, and the lowered name ends
\* in ".webp".
IsEligible_AnyEntry(entry) == HasSuffix(ToLower(entry.name), DotWebp)

IsEligible(entry) == ~entry.isDir /\ HasSuffix(ToLower(entry.name), DotWebp)

\* A directory "in" holding the entries S, the files' bytes being kinds[i].
Disk(S, kinds) ==
    [p \in Paths |->
        IF p.dir = "in" /\ \E i \in S : Pool[i].name = p.name
        THEN LET i == CHOOSE k \in S : Pool[k].name = p.name
             IN  IF Pool[i].isDir THEN Directory
                 ELSE [kind |-> kinds[i], img |-> i]
        ELSE Absent]

InDir == [dir |-> "in", name |-> <<>>]
OutDir == [dir |-> "out", name |-> <<>>]

InitBatchVars ==
    /\ webpFiles = <<>>
    /\ idx = 1
    /\ errors = <<>>
    /\ successCount = 0
    /\ reportFile = NoReport
    /\ summary = NoSummary
    /\ batchErr = NoErr
    /\ listed = "no"
    /\ mkdir = "no"
    /\ log = <<>>

\* tool <input-directory> [output-directory]
InitDir ==
    \E S \in SUBSET (1..Len(Pool)) :
      /\ Cardinality(S) <= MaxEntries
      /\ \E kinds \in [1..Len(Pool) -> SourceKinds] :
           /\ \A i \in 1..Len(Pool) : (i \notin S \/ ~IsEligible(Pool[i])) => kinds[i] = "junk"
           /\ fs = Disk(S, kinds)
      /\ entries = Listing(S, 1)
      /\ input = InDir
      /\ output \in {NoPath, InDir, OutDir}

\* tool <input-file> [output-file]: the input may be missing, the output may
\* be the input itself, and the output may exist already.
InitFile ==
    \E i \in {k \in 1..Len(Pool) : ~Pool[k].isDir}, present \in BOOLEAN,
       kind \in SourceKinds, old \in BOOLEAN :
      LET S == IF present THEN {i} ELSE {}
          disk == Disk(S, [k \in 1..Len(Pool) |-> kind])
      IN  /\ input = Join("in", Pool[i].name)
          /\ output \in {NoPath, input, Join("in", OName)}
          /\ entries = Listing(S, 1)
          /\ old => output = Join("in", OName)
          /\ fs = IF old
                  THEN [disk EXCEPT ![Join("in", OName)] = [kind |-> "png", img |-> 0]]
                  ELSE disk

Init ==
    /\ pc = "start"
    /\ exitCode = -1
    /\ runs = 1
    /\ runLog = <<>>
    /\ InitBatchVars
    /\ (InitDir \/ InitFile)

\* ------------------------------------------------------------------- main
\* os.Stat(input) and the branch on info.IsDir().
MainStat ==
    /\ pc = "start"
    /\ IF input.name # <<>> /\ fs[input] = Absent
       THEN pc' = "exit" /\ exitCode' = 1
       ELSE /\ pc' = IF input.name = <<>> THEN "dir" ELSE "file"
            /\ UNCHANGED exitCode
    /\ UNCHANGED <<input, output, entries, fs, runs, runLog>>
    /\ UNCHANGED batchVars

\* A record of one call of convertWebPToPNG: its arguments, what the two paths
\* held before and after, and what it returned.
CallRec(f, inputPath, outputPath, env, r) ==
    [inputPath |-> inputPath, outputPath |-> outputPath,
     env |-> Consulted(env, r.ops),
     inBefore |-> f[inputPath], inAfter |-> r.fs[inputPath],
     destBefore |-> f[outputPath], destAfter |-> r.fs[outputPath],
     err |-> r.err, ops |-> r.ops]

\* main: a nil error ends the process with status 0, any other with os.Exit(1).
ExitStatus(err) == IF err = NoErr THEN 0 ELSE 1

\* -------------------------------------------------------- convertDirectory
RECURSIVE FilterWebp(_)
\* The names of the eligible entries, in listing order.
FilterWebp(es) ==
    IF es = <<>> THEN <<>>
    ELSE (IF IsEligible(Head(es)) THEN <<Head(es).name>> ELSE <<>>)
         \o FilterWebp(Tail(es))

\* os.MkdirAll is called for an output directory that is given and is not
\* the input directory.
NeedsMkdir(inputDir, outputDir) == outputDir # "" /\ outputDir # inputDir

\* os.ReadDir, the filter, the empty check and os.MkdirAll.
ListDirectory ==
    /\ pc = "dir"
    /\ \E listOk \in BOOLEAN, mkdirOk \in BOOLEAN :
         IF ~listOk
         THEN /\ listed' = "failed"
              /\ batchErr' = Errorf("ListFailed", <<OsMsg>>)
              /\ exitCode' = ExitStatus(batchErr')
              /\ pc' = "exit"
              /\ UNCHANGED <<webpFiles, mkdir>>
         ELSE /\ listed' = "ok"
              /\ webpFiles' = FilterWebp(entries)
              /\ IF Len(webpFiles') = 0
                 THEN /\ batchErr' = NoErr
                      /\ exitCode' = ExitStatus(batchErr')
                      /\ pc' = "exit"
                      /\ UNCHANGED mkdir
                 ELSE IF NeedsMkdir(input.dir, output.dir) /\ ~mkdirOk
                      THEN /\ mkdir' = "failed"
                           /\ batchErr' = Errorf("MkdirFailed", <<OsMsg>>)
                           /\ exitCode' = ExitStatus(batchErr')
                           /\ pc' = "exit"
                      ELSE /\ mkdir' = IF NeedsMkdir(input.dir, output.dir)
                                       THEN "ok" ELSE "no"
                           /\ pc' = "loop"
                           /\ UNCHANGED <<batchErr, exitCode>>
    /\ UNCHANGED <<input, output, entries, fs, idx, errors, successCount,
                   reportFile, summary, log, runs, runLog>>

\* The destination of one eligible file.
OutputPath(inputDir, outputDir, webpFile) ==
    IF outputDir # "" THEN Join(outputDir, PngName(webpFile))
    ELSE Join(inputDir, PngName(webpFile))

\* The check after a reported success: os.Stat succeeds and Size() is not 0.
Verified_NoSize(c) == c # Absent

Verified(c) == c # Absent /\ ~IsEmpty(c)

\* `continue`: the range loop goes on with the next file (n files in all).
Continue_Break(i, n) == n + 1

Continue(i, n) == i + 1

\* One pass of the loop body.  vanish: another process removed the destination
\* between the converter's return and os.Stat; rm: how the os.Remove of an
\* empty destination ends.
ConvertNext ==
    /\ pc = "loop"
    /\ idx <= Len(webpFiles)
    /\ \E env \in Env, vanish \in BOOLEAN, rm \in BOOLEAN :
         LET webpFile == webpFiles[idx]
             inputPath == Join(input.dir, webpFile)
             outputPath == OutputPath(input.dir, output.dir, webpFile)
             r == convertWebPToPNG(fs, inputPath, outputPath, env)
             gone == r.err = NoErr /\ vanish /\ r.fs[outputPath] # Absent
             seen == IF gone THEN [r.fs EXCEPT ![outputPath] = Absent] ELSE r.fs
             atStat == seen[outputPath]
             ok == r.err = NoErr /\ Verified(atStat)
             outcome == IF r.err # NoErr THEN r.err.kind
                        ELSE IF atStat = Absent THEN "VerifyMissing"
                        ELSE IF ~Verified(atStat) THEN "VerifyEmpty"
                        ELSE "Verified"
             tag == IF r.err # NoErr THEN "convert"
                    ELSE IF atStat = Absent THEN "missing" ELSE "empty"
             removes == r.err = NoErr /\ atStat # Absent /\ ~Verified(atStat)
             after == IF removes THEN Remove(seen, outputPath, rm) ELSE seen
         IN  /\ fs' = after
             /\ errors' = IF ok THEN errors
                          ELSE Append(errors,
                                 [fileName |-> webpFile,
                                  errorMsg |-> [tag |-> tag, file |-> webpFile,
                                                path |-> outputPath, err |-> r.err]])
             /\ successCount' = IF ok THEN successCount + 1 ELSE successCount
             /\ idx' = IF ok THEN idx + 1 ELSE Continue(idx, Len(webpFiles))
             /\ log' = Append(log,
                          [file |-> webpFile,
                           call |-> CallRec(fs, inputPath, outputPath, env, r),
                           vanished |-> gone,
                           atStat |-> atStat,
                           rm |-> (removes => rm),
                           destAfter |-> after[outputPath],
                           outcome |-> outcome,
                           counted |-> successCount' - successCount,
                           img |-> fs[inputPath].img])
    /\ UNCHANGED <<pc, input, output, entries, webpFiles, reportFile, summary,
                   batchErr, exitCode, listed, mkdir, runs, runLog>>

\* The numbered entries written to the report.
ReportEntries_FromZero(errs) ==
    [i \in 1..Len(errs) |->
        [num |-> i - 1, fileName |-> errs[i].fileName, errorMsg |-> errs[i].errorMsg]]

ReportEntries(errs) ==
    [i \in 1..Len(errs) |->
        [num |-> i, fileName |-> errs[i].fileName, errorMsg |-> errs[i].errorMsg]]

\* What convertDirectory returns after the loop.
FinalError_Propagate(errs) ==
    IF Len(errs) > 0 THEN Errorf(errs[1].errorMsg.err.kind, <<>>) ELSE NoErr

FinalError(errs) == NoErr

\* After the loop: the report (when there are errors), the summary, return nil.
WriteReport ==
    /\ pc = "loop"
    /\ idx > Len(webpFiles)
    /\ \E createOk \in BOOLEAN :
         reportFile' = IF Len(errors) = 0 THEN reportFile
                       ELSE IF createOk
                       THEN [status |-> "written", total |-> Len(errors),
                             entries |-> ReportEntries(errors)]
                       ELSE [reportFile EXCEPT !.status = "createFailed"]
    /\ summary' = [shown |-> TRUE, success |-> successCount, total |-> Len(webpFiles)]
    /\ batchErr' = FinalError(errors)
    /\ exitCode' = ExitStatus(batchErr')
    /\ pc' = "exit"
    /\ UNCHANGED <<input, output, entries, fs, webpFiles, idx, errors,
                   successCount, listed, mkdir, log, runs, runLog>>

\* ------------------------------------------------------- main, one file
\* The output path of the single-file branch: args[1], or the input with its
\* extension replaced by ".png".
SingleOutput(in, out) ==
    IF out = NoPath THEN Join(in.dir, PngName(in.name)) ELSE out

ConvertSingle ==
    /\ pc = "file"
    /\ \E env \in Env :
         LET outputPath == SingleOutput(input, output)
             r == convertWebPToPNG(fs, input, outputPath, env)
         IN  /\ fs' = r.fs
             /\ exitCode' = ExitStatus(r.err)
             /\ runLog' = Append(runLog, CallRec(fs, input, outputPath, env, r))
    /\ pc' = "exit"
    /\ UNCHANGED <<input, output, entries, runs>>
    /\ UNCHANGED batchVars

\* The user runs the program again on the same arguments.
Rerun ==
    /\ pc = "exit"
    /\ input.name # <<>>
    /\ runs < MaxRuns
    /\ runs' = runs + 1
    /\ pc' = "start"
    /\ exitCode' = -1
    /\ UNCHANGED <<input, output, entries, fs, runLog>>
    /\ UNCHANGED batchVars

Next ==
    \/ MainStat
    \/ ListDirectory
    \/ ConvertNext
    \/ WriteReport
    \/ ConvertSingle
    \/ Rerun

Spec == Init /\ [][Next]_vars

\* =================================================================== claims
\* The eligible names as the specification defines them: the non-directory
\* entries whose name ends, case-insensitively, in ".webp", in listing order.
EndsInWebp(name) ==
    /\ Len(name) >= 5
    /\ \A k \in 1..5 : LowerChar(name[Len(name) - 5 + k]) = DotWebp[k]

RECURSIVE EligibleNames(_)
EligibleNames(es) ==
    IF es = <<>> THEN <<>>
    ELSE IF ~Head(es).isDir /\ EndsInWebp(Head(es).name)
         THEN <<Head(es).name>> \o EligibleNames(Tail(es))
         ELSE EligibleNames(Tail(es))

Has(ops, op) == \E i \in 1..Len(ops) : ops[i] = op
Failed(i) == log[i].outcome # "Verified"
FailedIdx == {i \in 1..Len(log) : Failed(i)}
\* Every call of convertWebPToPNG so far, from the batch and from single runs.
AllCalls == {log[i].call : i \in 1..Len(log)} \cup {runLog[i] : i \in 1..Len(runLog)}
BatchMode == input.name = <<>>
LoopEntered == listed = "ok" /\ mkdir # "failed" /\ webpFiles # <<>>
AllOk == [read |-> TRUE, create |-> TRUE, encode |-> "ok", sync |-> TRUE, remove |-> TRUE]

\* C1: once listing and output-directory creation have succeeded, the files
\* handed to the converter are, at every moment, the first eligible files in
\* listing order, each once, whatever the earlier outcomes; every pass records
\* a failure or counts a success; the run ends only when the last eligible file
\* has been attempted.
C1_EveryEligibleFileAttemptedInOrder ==
    (listed = "ok" /\ mkdir # "failed") =>
        LET want == EligibleNames(entries) IN
        /\ Len(log) <= Len(want)
        /\ \A i \in 1..Len(log) :
             /\ log[i].file = want[i]
             /\ log[i].call.inputPath = Join(input.dir, want[i])
        /\ Len(errors) = Cardinality(FailedIdx)
        /\ Len(errors) + successCount = Len(log)
        /\ pc = "exit" => Len(log) = Len(want)

\* C1 witness: a finished run whose first file failed and whose second
\* file was converted all the same.
C1_Witness ==
    /\ pc = "exit"
    /\ Len(log) = 2
    /\ Failed(1)
    /\ ~Failed(2)

\* The names of the failed files, in the order they failed.
RECURSIVE FailedFiles(_)
FailedFiles(i) ==
    IF i > Len(log) THEN <<>>
    ELSE (IF Failed(i) THEN <<log[i].file>> ELSE <<>>) \o FailedFiles(i + 1)

\* The report holds exactly the failed files, numbered from 1 in failure order.
ReportListsFailures ==
    /\ reportFile.status = "written"
    /\ reportFile.total = Cardinality(FailedIdx)
    /\ Len(reportFile.entries) = Cardinality(FailedIdx)
    /\ \A k \in 1..Len(reportFile.entries) :
         /\ reportFile.entries[k].num = k
         /\ reportFile.entries[k].fileName = FailedFiles(1)[k]

SummaryAndStatus ==
    /\ summary.shown
    /\ summary.total = Len(EligibleNames(entries))
    /\ summary.success = Len(EligibleNames(entries)) - Cardinality(FailedIdx)
    /\ exitCode = 0

\* C2 as stated: a batch over a listable directory with N >= 1 eligible files
\* and K failures ends with K report entries (numbered 1..K in failure order;
\* no report when K = 0), a summary count of N-K, and exit status 0.
C2_AsStated ==
    (pc = "exit" /\ BatchMode /\ listed = "ok" /\ EligibleNames(entries) # <<>>) =>
        /\ SummaryAndStatus
        /\ IF FailedIdx = {} THEN reportFile = NoReport ELSE ReportListsFailures

\* C2 amended: the same, provided the output directory, when one had to be
\* created, was created; and the report holds the K entries when it could be
\* created, while a failed creation leaves no report and changes nothing else.
C2_ReportSummaryAndStatus ==
    (pc = "exit" /\ BatchMode /\ listed = "ok" /\ mkdir # "failed"
       /\ EligibleNames(entries) # <<>>) =>
        /\ SummaryAndStatus
        /\ IF FailedIdx = {} THEN reportFile = NoReport
           ELSE \/ ReportListsFailures
                \/ reportFile = [NoReport EXCEPT !.status = "createFailed"]

\* C2 witness: a finished batch with a failure, a success and a written report.
C2_Witness ==
    /\ pc = "exit"
    /\ BatchMode
    /\ Cardinality(FailedIdx) = 1
    /\ successCount = 1
    /\ reportFile.status = "written"

\* An input that could be read and is neither valid WebP nor valid JPEG.
Undecodable(c) ==
    /\ c.env.read
    /\ c.inBefore \notin {Absent, Directory}
    /\ c.inBefore.kind \notin {"webp", "jpeg"}

\* C3 as stated: for an input that is neither valid WebP nor valid JPEG the
\* call fails with a decode error and no destination file (a file other than
\* the input) is on disk afterwards.
C3_AsStated ==
    \A c \in AllCalls :
        (Undecodable(c) /\ c.outputPath # c.inputPath) =>
            (c.err.kind = "DecodeFailed" /\ c.destAfter = Absent)

\* C3 amended: for such an input the call fails with a decode error, and on a
\* read or decode failure the destination path is not touched: it is never
\* created or opened, and holds afterwards what it held before (nothing, unless
\* a file was already there).
C3_DestinationUntouchedOnDecodeFailure ==
    \A c \in AllCalls :
        /\ Undecodable(c) => c.err.kind = "DecodeFailed"
        /\ c.err.kind \in {"ReadFailed", "DecodeFailed"} =>
             /\ ~Has(c.ops, "Create")
             /\ c.destAfter = c.destBefore
        /\ Has(c.ops, "Create") => Has(c.ops, "webp.Decode")

\* C3 witness: a decode failure on a call whose destination, another file,
\* existed before and is still there.
C3_Witness ==
    \E c \in AllCalls :
        /\ Undecodable(c)
        /\ c.err.kind = "DecodeFailed"
        /\ c.outputPath # c.inputPath
        /\ c.destBefore.kind = "png"
        /\ c.destAfter = c.destBefore

\* The PNG encoder failed after a successful decode.
EncodeFailedCall(c) == Has(c.ops, "png.Encode") /\ c.env.encode = "fail"

\* Close comes before Remove in the operations of the call.
ClosedThenRemoved(ops) ==
    \E i, k \in 1..Len(ops) : i < k /\ ops[i] = "Close" /\ ops[k] = "Remove"

\* C4 as stated: when encoding fails after a successful decode the handle is
\* closed, the destination is deleted, an encode error is returned, and no
\* partial destination file remains.
C4_AsStated ==
    \A c \in AllCalls :
        EncodeFailedCall(c) =>
            /\ c.err.kind = "EncodeFailed"
            /\ ClosedThenRemoved(c.ops)
            /\ c.destAfter = Absent

\* C4 amended: the handle is closed, the deletion is attempted and an encode
\* error is returned; no destination file remains when the deletion succeeds,
\* and the partial file remains when the deletion itself fails.
C4_PartialFileRemovedBestEffort ==
    \A c \in AllCalls :
        EncodeFailedCall(c) =>
            /\ c.err.kind = "EncodeFailed"
            /\ ClosedThenRemoved(c.ops)
            /\ c.env.remove => c.destAfter = Absent
            /\ ~c.env.remove => c.destAfter.kind = "partial"

\* C4 witness: an encode failure over a destination that existed before, with
\* a deletion that succeeded.
C4_Witness ==
    \E c \in AllCalls :
        /\ EncodeFailedCall(c)
        /\ c.env.remove
        /\ c.destBefore # Absent
        /\ c.destAfter = Absent

\* C5: convertDirectory returns an error exactly when os.ReadDir failed or the
\* os.MkdirAll of a given, different output directory failed; then no file was
\* handed to the converter; per-file failures never make the batch's error.
C5_BatchErrorOnlyFromListOrMkdir ==
    /\ batchErr # NoErr => (pc = "exit" /\ log = <<>> /\ exitCode = 1)
    /\ (pc = "exit" /\ BatchMode) =>
         /\ batchErr # NoErr <=> (listed = "failed" \/ mkdir = "failed")
         /\ listed = "failed" => batchErr.kind = "ListFailed"
         /\ mkdir = "failed" =>
              (batchErr.kind = "MkdirFailed" /\ NeedsMkdir(input.dir, output.dir))
         /\ batchErr = NoErr <=> exitCode = 0

\* C5 witness: a finished batch with per-file failures and no batch error.
C5_Witness ==
    /\ pc = "exit"
    /\ BatchMode
    /\ Len(errors) = 2
    /\ batchErr = NoErr
    /\ exitCode = 0

\* C6: a batch over a listable directory with no eligible file converts
\* nothing, writes no report, creates no directory and returns success.
C6_NoEligibleFileIsQuietSuccess ==
    (pc = "exit" /\ BatchMode /\ listed = "ok" /\ EligibleNames(entries) = <<>>) =>
        /\ log = <<>>
        /\ webpFiles = <<>>
        /\ reportFile = NoReport
        /\ mkdir = "no"
        /\ batchErr = NoErr
        /\ exitCode = 0

\* C6 witness: a finished batch over a directory that holds a subdirectory
\* named like a WebP file and a file of another type, and nothing eligible.
C6_Witness ==
    /\ pc = "exit"
    /\ BatchMode
    /\ listed = "ok"
    /\ Len(entries) = 2
    /\ \E i \in 1..Len(entries) : entries[i].isDir /\ EndsInWebp(entries[i].name)
    /\ EligibleNames(entries) = <<>>

\* C7 as stated: WebP decoding is attempted first; JPEG decoding is attempted
\* exactly when the WebP decoding failed; JPEG bytes convert; and when both
\* fail the decode error carries both underlying messages.
C7_AsStated ==
    \A c \in AllCalls :
        Has(c.ops, "webp.Decode") =>
            /\ c.ops[2] = "webp.Decode"
            /\ Has(c.ops, "jpeg.Decode") <=> c.inBefore.kind # "webp"
            /\ Has(c.ops, "jpeg.Decode") => c.ops[3] = "jpeg.Decode"
            /\ (c.inBefore.kind = "jpeg" /\ c.env = AllOk) => c.err = NoErr
            /\ c.inBefore.kind \notin {"webp", "jpeg"} =>
                 /\ c.err.kind = "DecodeFailed"
                 /\ \E k \in 1..Len(c.err.cause) : c.err.cause[k] = WebpMsg
                 /\ \E k \in 1..Len(c.err.cause) : c.err.cause[k] = JpegMsg

\* A run on a valid input in which no call to the system or the encoder failed.
CleanRun(c) == c.env = AllOk /\ c.err.kind \notin {"ReadFailed"}
ValidInput(c) == c.inBefore.kind \in {"webp", "jpeg"}

\* Runs k and k+1 of the single-file conversion convert the same valid input
\* to the same destination content, and leave the input as it was.
SecondRunRepeatsFirst(k) ==
    /\ runLog[k].err = NoErr
    /\ runLog[k + 1].err = NoErr
    /\ runLog[k].destAfter = [kind |-> "png", img |-> runLog[k].inBefore.img]
    /\ runLog[k + 1].destAfter = runLog[k].destAfter
    /\ runLog[k].inAfter = runLog[k].inBefore
    /\ runLog[k + 1].inBefore = runLog[k].inBefore
    /\ runLog[k + 1].inAfter = runLog[k].inBefore

\* C8 as stated: two runs of the single-file conversion on the same valid
\* input and output path (no operation of the system failing): the second
\* succeeds and leaves the destination as the first did, overwritten, and
\* the input is unchanged by either.
C8_AsStated ==
    \A k \in 1..(Len(runLog) - 1) :
        (ValidInput(runLog[k]) /\ CleanRun(runLog[k]) /\ CleanRun(runLog[k + 1])) =>
            SecondRunRepeatsFirst(k)

\* C8 amended: the same, for an output path that is not the input path.
C8_RerunIsIdempotent ==
    \A k \in 1..(Len(runLog) - 1) :
        (/\ ValidInput(runLog[k])
         /\ CleanRun(runLog[k])
         /\ CleanRun(runLog[k + 1])
         /\ runLog[k].outputPath # runLog[k].inputPath) =>
            SecondRunRepeatsFirst(k)

\* C8 witness: two clean runs on a JPEG input, the second over the
\* destination the first wrote.
C8_Witness ==
    /\ Len(runLog) = 2
    /\ runLog[1].inBefore.kind = "jpeg"
    /\ runLog[1].outputPath # runLog[1].inputPath
    /\ CleanRun(runLog[1])
    /\ CleanRun(runLog[2])
    /\ runLog[2].destBefore = runLog[1].destAfter
    /\ runLog[2].destAfter.kind = "png"

\* Pass i of the loop saw, after a reported success, a destination that was
\* missing or empty.
VerifyFailed(i) ==
    log[i].call.err = NoErr /\ (log[i].atStat = Absent \/ IsEmpty(log[i].atStat))

\* A file is counted only after a reported success and a check that found
\* the destination present and not empty; a failed check counts nothing and
\* records a failure; the loop goes on to the last file.
CountedOnlyWhenVerified ==
    /\ \A i \in 1..Len(log) :
         /\ log[i].counted \in {0, 1}
         /\ log[i].counted = 1 =>
              /\ log[i].call.err = NoErr
              /\ log[i].atStat # Absent
              /\ ~IsEmpty(log[i].atStat)
         /\ VerifyFailed(i) => (log[i].counted = 0 /\ Failed(i))
    /\ Len(errors) = Cardinality(FailedIdx)
    /\ (pc = "exit" /\ LoopEntered) => Len(log) = Len(webpFiles)

\* C9 as stated: CountedOnlyWhenVerified, and after a failed check the
\* destination file is gone.
C9_AsStated ==
    /\ CountedOnlyWhenVerified
    /\ \A i \in 1..Len(log) : VerifyFailed(i) => log[i].destAfter = Absent

\* C9 amended: CountedOnlyWhenVerified, and after a failed check the empty
\* destination is gone unless its removal failed (a missing one stays missing).
C9_VerificationGuardsSuccess ==
    /\ CountedOnlyWhenVerified
    /\ \A i \in 1..Len(log) :
         VerifyFailed(i) =>
            /\ log[i].rm => log[i].destAfter = Absent
            /\ ~log[i].rm => log[i].destAfter = EmptyFile

\* C9 witness: a finished batch whose first file was reported converted with
\* an empty destination, which was removed, and whose second file was counted.
C9_Witness ==
    /\ pc = "exit"
    /\ Len(log) = 2
    /\ log[1].outcome = "VerifyEmpty"
    /\ log[1].rm
    /\ log[1].destAfter = Absent
    /\ log[2].counted = 1
    /\ successCount = 1

\* C10 as stated: when convertDirectory returns (no other process having
\* removed an output), every file counted as a success has its own destination
\* present, holding its picture, and no two files counted as successes share
\* a destination path.
C10_AsStated ==
    (pc = "exit" /\ BatchMode /\ \A i \in 1..Len(log) : ~log[i].vanished) =>
        /\ \A i \in 1..Len(log) :
             log[i].counted = 1 =>
                fs[log[i].call.outputPath] = [kind |-> "png", img |-> log[i].img]
        /\ \A i, k \in 1..Len(log) :
             (i # k /\ log[i].counted = 1 /\ log[k].counted = 1) =>
                log[i].call.outputPath # log[k].call.outputPath

====
